---------------------------- MODULE Spec2Model ----------------------------
(***************************************************************************)
(* Model of appinion's ranking core (src/appinion/aggregator.py):          *)
(* ServiceRepository (__init__, services, for_service) and the selection   *)
(* functions best_rated, cheapest and best_value.                          *)
(*                                                                         *)
(* Python values are represented as follows.                               *)
(*   str             a sequence of code points (32 is " ", 65 "A", ...)    *)
(*   Optional[x]     <<>> for None, <<x>> for a value                      *)
(*   float           a pair <<n, d>>: the rational n/d when d > 0, and     *)
(*                   float("inf") / float("-inf") when d = 0 (sign of n).  *)
(*                   The inputs are chosen so that every float operation   *)
(*                   of the code is exact on them.                         *)
(*   list            an object of the heap, named by its address           *)
(*   iterable        a list (every traversal starts over) or a generator   *)
(*                   (a traversal yields only what was not yet consumed)   *)
(***************************************************************************)
EXTENDS Integers, Sequences, FiniteSets, TLC

VARIABLES
    heap,       \* address -> contents of the list object at that address
    kind,       \* "list" or "generator": what the caller passes as `options`
    pos,        \* how many elements of the caller's generator were consumed
    repo,       \* <<>> before ServiceRepository(...) ran, else <<self>>
    held,       \* <<>> or <<address>>: the list last returned to the caller
    call,       \* the last operation: [op |-> name, arg |-> its argument]
    result,     \* what the selection functions of the last operation returned
    expected,   \* history: the caller's list as the caller's own edits left it
    fresh,      \* history: the answers of the repository right after __init__
    edits       \* how many edits the caller has made to the lists it holds

vars == <<heap, kind, pos, repo, held, call, result, expected, fresh, edits>>

(***************************************************************************)
(* Bounds of the model.                                                    *)
(***************************************************************************)
MaxLen == 3          \* longest option sequence given to a selection function
MaxIterLen == 2      \* longest option sequence given as a list or a generator
MaxBucket == 3       \* longest option sequence given to a ranking repository
MaxOptions == 2      \* longest option sequence given to an edited repository
MaxEdits == 1        \* edits the caller makes to the lists it holds

(***************************************************************************)
(* Floats and tuples of floats, compared as Python compares them.          *)
(***************************************************************************)
Num(k) == <<k, 1>>
PosInf == <<1, 0>>
NegInf == <<-1, 0>>
Frac(n, d) == IF d < 0 THEN <<-n, -d>> ELSE <<n, d>>
Neg(x) == <<-x[1], x[2]>>

NumLess(x, y) ==
    IF x[2] = 0 /\ y[2] = 0 THEN x[1] < y[1]
    ELSE x[1] * y[2] < y[1] * x[2]

NumEq(x, y) == ~NumLess(x, y) /\ ~NumLess(y, x)

\* a < b for two tuples of the same length: the first differing component decides
TupleLess(a, b) ==
    \E i \in 1..Len(a) :
        /\ NumLess(a[i], b[i])
        /\ \A j \in 1..(i - 1) : NumEq(a[j], b[j])

(***************************************************************************)
(* The builtins max, min and sorted with a key function.  keys[i] is the   *)
(* key of items[i].                                                        *)
(***************************************************************************)
RECURSIVE MaxScan(_, _, _)
MaxScan(keys, i, best) ==
    IF i > Len(keys) THEN best
    ELSE MaxScan(keys, i + 1, IF TupleLess(keys[best], keys[i]) THEN i ELSE best)

RECURSIVE MaxScanLast(_, _, _)
MaxScanLast(keys, i, best) ==
    IF i > Len(keys) THEN best
    ELSE MaxScanLast(keys, i + 1, IF TupleLess(keys[i], keys[best]) THEN best ELSE i)

PyMaxLast(items, keys) == items[MaxScanLast(keys, 2, 1)]

\* max(items, key=...): the first element whose key no other key exceeds
PyMax(items, keys) == items[MaxScan(keys, 2, 1)]

RECURSIVE MinScan(_, _, _)
MinScan(keys, i, best) ==
    IF i > Len(keys) THEN best
    ELSE MinScan(keys, i + 1, IF TupleLess(keys[i], keys[best]) THEN i ELSE best)

\* min(items, key=...): the first element whose key is below no other key
PyMin(items, keys) == items[MinScan(keys, 2, 1)]

\* place index i behind every index already placed whose key is not greater
Insert(acc, i, keys) ==
    LET p == Cardinality({q \in 1..Len(acc) : ~TupleLess(keys[i], keys[acc[q]])})
    IN  SubSeq(acc, 1, p) \o <<i>> \o SubSeq(acc, p + 1, Len(acc))

RECURSIVE SortScan(_, _, _)
SortScan(keys, i, acc) ==
    IF i > Len(keys) THEN acc
    ELSE SortScan(keys, i + 1, Insert(acc, i, keys))

\* sorted(items, key=...): a new list, ascending by key, stable
PySorted(items, keys) ==
    LET order == SortScan(keys, 1, <<>>)
    IN  [k \in 1..Len(items) |-> items[order[k]]]

(***************************************************************************)
(* str: comparison, strip and lower.                                       *)
(***************************************************************************)
StrLess(s, t) ==
    \/ \E i \in 1..Len(s) :
          /\ i <= Len(t)
          /\ s[i] < t[i]
          /\ \A j \in 1..(i - 1) : s[j] = t[j]
    \/ /\ Len(s) < Len(t)
       /\ \A j \in 1..Len(s) : s[j] = t[j]

IsSpace(c) == c \in {9, 10, 11, 12, 13, 28, 29, 30, 31, 32}

RECURSIVE LStrip(_)
LStrip(s) == IF s # <<>> /\ IsSpace(Head(s)) THEN LStrip(Tail(s)) ELSE s

RECURSIVE RStrip(_)
RStrip(s) ==
    IF s # <<>> /\ IsSpace(s[Len(s)]) THEN RStrip(SubSeq(s, 1, Len(s) - 1)) ELSE s

Strip(s) == RStrip(LStrip(s))

LowerChar(c) == IF c >= 65 /\ c <= 90 THEN c + 32 ELSE c

Lower(s) == [i \in 1..Len(s) |-> LowerChar(s[i])]

normalize_lower_only(service) == Lower(service)

\* _normalize_service_name: service.strip().lower()
normalize_service_name(service) == Lower(Strip(service))

(***************************************************************************)
(* ServiceOption.  provider stands for the identity of the option; the     *)
(* fields currency, pricing_unit, link and notes are read by no operation  *)
(* of the core.                                                            *)
(***************************************************************************)
ServiceOption(service, provider, rating, review_count, price) ==
    [service |-> service, provider |-> provider, rating |-> rating,
     review_count |-> review_count, price |-> price]

None == <<>>
Some(x) == <<x>>

(***************************************************************************)
(* Iterables.  Drain is what list(options) or a comprehension over         *)
(* `options` does: it yields the elements to come and, for a generator,    *)
(* leaves it exhausted.                                                     *)
(***************************************************************************)
ListOf(items) == [kind |-> "list", items |-> items, pos |-> 0]

Drain(it) ==
    [taken |-> SubSeq(it.items, it.pos + 1, Len(it.items)),
     it    |-> IF it.kind = "generator"
               THEN [it EXCEPT !.pos = Len(it.items)]
               ELSE it]

Range(s) == {s[i] : i \in 1..Len(s)}

\* a key lambda is a function from the options it is applied to to their keys
KeysOf(items, key) == [i \in 1..Len(items) |-> key[items[i]]]

(***************************************************************************)
(* The selection functions.  Each returns [ret, exc, it]: the returned     *)
(* Optional[ServiceOption], the exception raised ("none" when it returns)  *)
(* and the iterable as the call left it.                                   *)
(***************************************************************************)
\* _best_option(options, key)
best_option(options, key) ==
    LET d == Drain(options)
        iterable == d.taken
    IN  IF iterable = <<>>
        THEN [ret |-> None, exc |-> "none", it |-> d.it]
        ELSE [ret |-> Some(PyMax(iterable, KeysOf(iterable, key))),
              exc |-> "none", it |-> d.it]

best_rated_key_inf(option) ==
    << Num(option.rating),
       Num(option.review_count),
       IF option.price # None THEN Neg(Num(option.price[1])) ELSE PosInf >>

\* the key lambda of best_rated
best_rated_key(option) ==
    << Num(option.rating),
       Num(option.review_count),
       IF option.price # None THEN Neg(Num(option.price[1])) ELSE NegInf >>

best_rated(options) ==
    best_option(options, [option \in Range(options.items) |-> best_rated_key(option)])

has_price_truthy(option) == option.price # None /\ option.price[1] # 0

\* the filter of cheapest: option.price is not None
has_price(option) == option.price # None

\* the key lambda of cheapest
cheapest_key(option) ==
    << Num(option.price[1]), Neg(Num(option.rating)), Neg(Num(option.review_count)) >>

cheapest(options) ==
    LET d == Drain(options)
        priced_options == SelectSeq(d.taken, has_price)
    IN  IF priced_options = <<>>
        THEN [ret |-> None, exc |-> "none", it |-> d.it]
        ELSE [ret |-> Some(PyMin(priced_options,
                                 KeysOf(priced_options,
                                        [option \in Range(priced_options) |->
                                            cheapest_key(option)]))),
              exc |-> "none", it |-> d.it]

has_any_price(option) == option.price # None

\* the filter of best_value: option.price is not None and option.price > 0
has_positive_price(option) == option.price # None /\ option.price[1] > 0

\* the division of value(option) raises when the price is zero
value_raises(option) == option.price[1] = 0

\* value(option): rating * (1 + review_count / 100) / price
value(option) ==
    Frac(option.rating * (100 + option.review_count), 100 * option.price[1])

\* the key lambda of best_value
best_value_key(option) ==
    << value(option), Num(option.rating), Num(option.review_count) >>

best_value_filtered_fallback(options) ==
    LET d == Drain(options)
        priced_options == SelectSeq(d.taken, has_positive_price)
    IN  IF priced_options = <<>>
        THEN best_rated(ListOf(priced_options))
        ELSE [best_option(ListOf(priced_options),
                          [option \in Range(priced_options) |-> best_value_key(option)])
                 EXCEPT !.it = d.it]

best_value(options) ==
    LET d == Drain(options)
        priced_options == SelectSeq(d.taken, has_positive_price)
    IN  IF priced_options = <<>>
        THEN best_rated(d.it)
        ELSE IF \E i \in 1..Len(priced_options) : value_raises(priced_options[i])
        THEN [ret |-> None, exc |-> "ZeroDivisionError", it |-> d.it]
        ELSE [best_option(ListOf(priced_options),
                          [option \in Range(priced_options) |-> best_value_key(option)])
                 EXCEPT !.it = d.it]

(***************************************************************************)
(* The heap.  An address is <<tag, name>>: the caller's list, the list     *)
(* self._options, the list last returned to the caller, and one bucket     *)
(* list of self._index per normalized service name.                        *)
(***************************************************************************)
InAddr == <<"options", <<>>>>
OptionsAddr == <<"self._options", <<>>>>
RetAddr == <<"returned", <<>>>>
BucketAddr(normalized) == <<"self._index", normalized>>

Store(h, addr, contents) ==
    [a \in DOMAIN h \cup {addr} |-> IF a = addr THEN contents ELSE h[a]]

list_alias(h, src, dst) == [heap |-> h, ref |-> src]

\* list(options): a new list object holding the elements of `options`
list_copy(h, src, dst) == [heap |-> Store(h, dst, h[src]), ref |-> dst]

(***************************************************************************)
(* ServiceRepository.                                                      *)
(***************************************************************************)
InBucket(option, normalized) == normalize_service_name(option.service) = normalized

\* __init__(self, options): the heap it leaves and the fields of self
repository_init(h, options) ==
    LET copy == list_copy(h, options, OptionsAddr)
        own == copy.heap[copy.ref]
        names == {normalize_service_name(own[i].service) : i \in 1..Len(own)}
        buckets == {BucketAddr(n) : n \in names}
    IN  [heap |-> [a \in DOMAIN copy.heap \cup buckets |->
                      IF a \in buckets
                      THEN SelectSeq(own, LAMBDA option : InBucket(option, a[2]))
                      ELSE copy.heap[a]],
         self |-> [options |-> copy.ref,
                   index   |-> [n \in names |-> BucketAddr(n)]]]

\* some enumeration of a set, as iterating a Python set gives one
RECURSIVE SetSeq(_)
SetSeq(S) ==
    IF S = {} THEN <<>>
    ELSE LET x == CHOOSE y \in S : TRUE IN <<x>> \o SetSeq(S \ {x})

InsertStr(acc, x) ==
    LET p == Cardinality({q \in 1..Len(acc) : ~StrLess(x, acc[q])})
    IN  SubSeq(acc, 1, p) \o <<x>> \o SubSeq(acc, p + 1, Len(acc))

RECURSIVE StrSortScan(_, _, _)
StrSortScan(items, i, acc) ==
    IF i > Len(items) THEN acc
    ELSE StrSortScan(items, i + 1, InsertStr(acc, items[i]))

\* sorted(items) for strings
StrSorted(items) == StrSortScan(items, 1, <<>>)

services_of_list(h, self) ==
    LET own == h[self.options]
    IN  StrSorted([i \in 1..Len(own) |-> own[i].service])

\* services(self): sorted({option.service for option in self._options})
services(h, self) ==
    LET own == h[self.options]
    IN  StrSorted(SetSeq({own[i].service : i \in 1..Len(own)}))

for_service_key_neg_inf(option) ==
    << Neg(Num(option.rating)),
       Neg(Num(option.review_count)),
       IF option.price # None THEN Num(option.price[1]) ELSE NegInf >>

\* the key lambda of for_service
for_service_key(option) ==
    << Neg(Num(option.rating)),
       Neg(Num(option.review_count)),
       IF option.price # None THEN Num(option.price[1]) ELSE PosInf >>

\* for_service(self, service): the contents of the list it returns
for_service(h, self, service) ==
    LET normalized == normalize_service_name(service)
        bucket == IF normalized \in DOMAIN self.index
                  THEN h[self.index[normalized]]
                  ELSE <<>>
    IN  PySorted(bucket,
                 KeysOf(bucket, [option \in Range(bucket) |-> for_service_key(option)]))

(***************************************************************************)
(* cli.render_service_summary: the three picks of a for_service result.    *)
(***************************************************************************)
render_service_summary(options) ==
    [best  |-> best_rated(ListOf(options)),
     cheap |-> cheapest(ListOf(options)),
     value |-> best_value(ListOf(options))]

(***************************************************************************)
(* Inputs.                                                                 *)
(***************************************************************************)
\* <<rating, review_count>>
Scores == {<<2, 0>>, <<2, 100>>, <<4, 0>>}
RepoScores == {<<2, 0>>, <<4, 0>>}
Prices == {None} \cup {Some(p) : p \in (-1)..2}
RankPrices == {None} \cup {Some(p) : p \in 1..2}

\* "a", " A", "b "
RawServices == {<<97>>, <<32, 65>>, <<98, 32>>}
\* "a ", "A", " B", "c"
QueryNames == {<<97, 32>>, <<65>>, <<32, 66>>, <<99>>}

\* the option sequences of length n whose i-th option is provider i
OptionSeqs(n, Services, RCs, Ps) ==
    [1..n -> Services \X RCs \X Ps]

AsOptions(t) ==
    [i \in 1..Len(t) |-> ServiceOption(t[i][1], i, t[i][2][1], t[i][2][2], t[i][3])]

NoCall == [op |-> "none", arg |-> <<>>]
NoResult == [ret |-> None, exc |-> "none"]

InitWith(t, k) ==
    /\ heap = [a \in {InAddr} |-> AsOptions(t)]
    /\ kind = k
    /\ pos = 0
    /\ repo = <<>>
    /\ held = <<>>
    /\ call = NoCall
    /\ result = NoResult
    /\ expected = AsOptions(t)
    /\ fresh = <<>>
    /\ edits = 0

(***************************************************************************)
(* The caller applies a selection function to its iterable.                *)
(***************************************************************************)
Options == [kind |-> kind, items |-> heap[InAddr], pos |-> pos]

Select(op, r) ==
    /\ call' = [op |-> op, arg |-> pos]
    /\ result' = [ret |-> r.ret, exc |-> r.exc]
    /\ pos' = r.it.pos
    /\ UNCHANGED <<heap, kind, repo, held, expected, fresh, edits>>

BestRated == Select("best_rated", best_rated(Options))

Cheapest == Select("cheapest", cheapest(Options))

BestValue == Select("best_value", best_value(Options))

(***************************************************************************)
(* The caller builds a repository from its list and queries it.            *)
(***************************************************************************)
Construct ==
    /\ repo = <<>>
    /\ kind = "list"
    /\ LET made == repository_init(heap, InAddr)
       IN  /\ heap' = made.heap
           /\ repo' = <<made.self>>
           /\ fresh' = [input       |-> heap[InAddr],
                        services    |-> services(made.heap, made.self),
                        for_service |-> [n \in QueryNames |->
                                            for_service(made.heap, made.self, n)]]
    /\ call' = [op |-> "__init__", arg |-> <<>>]
    /\ result' = NoResult
    /\ UNCHANGED <<kind, pos, held, expected, edits>>

Services ==
    /\ repo # <<>>
    /\ heap' = Store(heap, RetAddr, services(heap, repo[1]))
    /\ held' = <<RetAddr>>
    /\ call' = [op |-> "services", arg |-> <<>>]
    /\ result' = NoResult
    /\ UNCHANGED <<kind, pos, repo, expected, fresh, edits>>

ForService(name) ==
    /\ repo # <<>>
    /\ heap' = Store(heap, RetAddr, for_service(heap, repo[1], name))
    /\ held' = <<RetAddr>>
    /\ call' = [op |-> "for_service", arg |-> name]
    /\ result' = NoResult
    /\ UNCHANGED <<kind, pos, repo, expected, fresh, edits>>

Summary ==
    /\ call.op = "for_service"
    /\ heap[held[1]] # <<>>
    /\ result' = render_service_summary(heap[held[1]])
    /\ call' = [op |-> "summary", arg |-> call.arg]
    /\ UNCHANGED <<heap, kind, pos, repo, held, expected, fresh, edits>>

(***************************************************************************)
(* The caller edits the list it passed and the list it was returned.  The  *)
(* caller keeps one returned list: the next query's list takes its place.  *)
(***************************************************************************)
Reverse(s) == [i \in 1..Len(s) |-> s[Len(s) + 1 - i]]
Remove(s, i) == SubSeq(s, 1, i - 1) \o SubSeq(s, i + 1, Len(s))

EditInput(contents) ==
    /\ repo # <<>>
    /\ edits < MaxEdits
    /\ edits' = edits + 1
    /\ heap' = [heap EXCEPT ![InAddr] = contents]
    /\ expected' = contents
    /\ call' = [op |-> "edit", arg |-> <<>>]
    /\ result' = NoResult
    /\ UNCHANGED <<kind, pos, repo, held, fresh>>

CallerAppend(service) ==
    EditInput(Append(heap[InAddr], ServiceOption(service, 0, 4, 0, None)))

CallerRemove(i) == EditInput(Remove(heap[InAddr], i))

CallerReverse ==
    /\ Len(heap[InAddr]) > 1
    /\ EditInput(Reverse(heap[InAddr]))

EditReturned(contents) ==
    /\ edits < MaxEdits
    /\ edits' = edits + 1
    /\ heap' = [heap EXCEPT ![held[1]] = contents]
    /\ call' = [op |-> "edit", arg |-> <<>>]
    /\ result' = NoResult
    /\ UNCHANGED <<kind, pos, repo, held, expected, fresh>>

ReturnedAppend ==
    /\ held # <<>>
    /\ heap[held[1]] # <<>>
    /\ EditReturned(Append(heap[held[1]], heap[held[1]][1]))

ReturnedRemove ==
    /\ held # <<>>
    /\ heap[held[1]] # <<>>
    /\ EditReturned(Tail(heap[held[1]]))

ReturnedReverse ==
    /\ held # <<>>
    /\ Len(heap[held[1]]) > 1
    /\ EditReturned(Reverse(heap[held[1]]))

(***************************************************************************)
(* Specifications.                                                         *)
(***************************************************************************)
\* the selection functions on every list of up to MaxLen options
InitSel ==
    \E n \in 0..MaxLen : \E t \in OptionSeqs(n, {<<97>>}, Scores, Prices) :
        InitWith(t, "list")

NextSel == BestRated \/ Cheapest \/ BestValue

Spec == InitSel /\ [][NextSel]_vars

\* the selection functions on a list and on a generator of up to MaxIterLen options
InitIter ==
    \E n \in 0..MaxIterLen : \E t \in OptionSeqs(n, {<<97>>}, Scores, Prices) :
        \E k \in {"list", "generator"} : InitWith(t, k)

SpecIter == InitIter /\ [][NextSel]_vars

\* the ranking of one service's options, up to MaxBucket of them
InitRank ==
    \E n \in 0..MaxBucket : \E t \in OptionSeqs(n, {<<97>>}, Scores, RankPrices) :
        InitWith(t, "list")

NextRank ==
    \/ Construct
    \/ \E name \in QueryNames : ForService(name)
    \/ Summary

SpecRank == InitRank /\ [][NextRank]_vars

\* a repository of up to MaxOptions options of several services, whose caller
\* edits the list it passed and the lists it is returned
InitRepo ==
    \E n \in 0..MaxOptions : \E t \in OptionSeqs(n, RawServices, RepoScores, {None}) :
        InitWith(t, "list")

NextRepo ==
    \/ Construct
    \/ Services
    \/ \E name \in QueryNames : ForService(name)
    \/ Summary
    \/ \E service \in RawServices : CallerAppend(service)
    \/ \E i \in 1..Len(heap[InAddr]) : CallerRemove(i)
    \/ CallerReverse
    \/ ReturnedAppend
    \/ ReturnedRemove
    \/ ReturnedReverse

SpecRepo == InitRepo /\ [][NextRepo]_vars

(***************************************************************************)
(* Vocabulary of the properties, stated on the fields of the options and   *)
(* not through the key functions of the code.                              *)
(***************************************************************************)
Input == heap[InAddr]
Returned == heap[RetAddr]
Count(s, x) == Cardinality({i \in 1..Len(s) : s[i] = x})
IsPermutation(s, t) == \A x \in Range(s) \cup Range(t) : Count(s, x) = Count(t, x)

Priced(o) == o.price # None
PositivelyPriced(o) == o.price # None /\ o.price[1] > 0

\* a is a strictly better best_rated pick than b
BetterRated(a, b) ==
    \/ a.rating > b.rating
    \/ a.rating = b.rating /\ a.review_count > b.review_count
    \/ /\ a.rating = b.rating
       /\ a.review_count = b.review_count
       /\ Priced(a)
       /\ (~Priced(b) \/ a.price[1] < b.price[1])

\* a is strictly cheaper than b under (price, then rating, then review_count)
Cheaper(a, b) ==
    \/ a.price[1] < b.price[1]
    \/ a.price[1] = b.price[1] /\ a.rating > b.rating
    \/ /\ a.price[1] = b.price[1]
       /\ a.rating = b.rating
       /\ a.review_count > b.review_count

\* rating * (1 + review_count/100) / price of a against that of b, both prices > 0
ValueTimes(a, b) == a.rating * (100 + a.review_count) * b.price[1]

BetterValue(a, b) ==
    \/ ValueTimes(a, b) > ValueTimes(b, a)
    \/ ValueTimes(a, b) = ValueTimes(b, a) /\ a.rating > b.rating
    \/ /\ ValueTimes(a, b) = ValueTimes(b, a)
       /\ a.rating = b.rating
       /\ a.review_count > b.review_count

\* a ranks strictly before b in for_service's order
RanksBefore(a, b) ==
    \/ a.rating > b.rating
    \/ a.rating = b.rating /\ a.review_count > b.review_count
    \/ /\ a.rating = b.rating
       /\ a.review_count = b.review_count
       /\ Priced(a)
       /\ (~Priced(b) \/ a.price[1] < b.price[1])

SameRank(a, b) == ~RanksBefore(a, b) /\ ~RanksBefore(b, a)

\* a name without its surrounding whitespace, in lower case
Trimmed(s) ==
    LET solid == {i \in 1..Len(s) : ~IsSpace(s[i])}
        first == CHOOSE i \in solid : \A j \in solid : i <= j
        last  == CHOOSE i \in solid : \A j \in solid : i >= j
    IN  IF solid = {} THEN <<>>
        ELSE [k \in 1..(last - first + 1) |-> LowerChar(s[first + k - 1])]

SameService(s, t) == Trimmed(s) = Trimmed(t)

\* the options of the constructor's input in the bucket of `name`, in input order
BucketOf(name) == SelectSeq(fresh.input, LAMBDA o : SameService(o.service, name))

(***************************************************************************)
(* C1: when no option has a price > 0 (prices absent, zero or negative, or *)
(* no option at all), best_value returns what best_rated returns on the    *)
(* same full input: the same element, or no result when it is empty.       *)
(***************************************************************************)
C1_BestValueFallsBack ==
    (call.op = "best_value" /\ \A o \in Range(Input) : ~PositivelyPriced(o))
        => /\ result.exc = "none"
           /\ result.ret = best_rated(ListOf(Input)).ret
           /\ (result.ret = None) = (Input = <<>>)

C1_Witness ==
    /\ call.op = "best_value"
    /\ \A o \in Range(Input) : ~PositivelyPriced(o)
    /\ \E o \in Range(Input) : Priced(o) /\ o.price[1] < 0
    /\ \E o \in Range(Input) : Priced(o) /\ o.price[1] = 0
    /\ result.ret # None
    /\ result.ret[1].provider = 3

(***************************************************************************)
(* C2: cheapest returns no result exactly when no option has a price; else *)
(* it returns a priced option of the input than which no priced option is  *)
(* cheaper under (price, then higher rating, then higher review_count).    *)
(* An option of price 0 is priced.                                         *)
(***************************************************************************)
C2_CheapestIsMinimalPriced ==
    call.op = "cheapest"
        => /\ result.exc = "none"
           /\ (result.ret = None) = (\A o \in Range(Input) : ~Priced(o))
           /\ result.ret # None
                => /\ result.ret[1] \in Range(Input)
                   /\ Priced(result.ret[1])
                   /\ \A o \in Range(Input) :
                         Priced(o) => /\ ~Cheaper(o, result.ret[1])
                                      /\ o.price[1] >= result.ret[1].price[1]

C2_Witness ==
    /\ call.op = "cheapest"
    /\ result.ret # None
    /\ result.ret[1].price = Some(0)
    /\ result.ret[1].provider = 3
    /\ \E o \in Range(Input) : ~Priced(o)
    /\ \E o \in Range(Input) :
          /\ o.price = Some(0)
          /\ Cheaper(result.ret[1], o)

(***************************************************************************)
(* C3: best_rated returns no result exactly when the input is empty; else  *)
(* it returns the first option of the input than which none is better      *)
(* under (rating, then review_count, then lower price, no price last).     *)
(***************************************************************************)
C3_BestRatedIsFirstMaximal ==
    call.op = "best_rated"
        => /\ result.exc = "none"
           /\ (result.ret = None) = (Input = <<>>)
           /\ result.ret # None
                => \E i \in 1..Len(Input) :
                      /\ result.ret[1] = Input[i]
                      /\ \A j \in 1..Len(Input) : ~BetterRated(Input[j], Input[i])
                      /\ \A j \in 1..(i - 1) : BetterRated(Input[i], Input[j])

C3_Witness ==
    /\ call.op = "best_rated"
    /\ result.ret # None
    /\ result.ret[1].provider = 2
    /\ Priced(result.ret[1])
    /\ ~Priced(Input[1])
    /\ Input[1].rating = Input[2].rating
    /\ Input[1].review_count = Input[2].review_count
    /\ Len(Input) = 3
    /\ ~BetterRated(Input[2], Input[3])

(***************************************************************************)
(* C4: when some option has a price > 0, best_value returns without a      *)
(* division by zero an option of price > 0 than which no option of         *)
(* price > 0 has a better (value score, then rating, then review_count).   *)
(***************************************************************************)
C4_BestValueIsMaximalPriced ==
    (call.op = "best_value" /\ \E o \in Range(Input) : PositivelyPriced(o))
        => /\ result.exc = "none"
           /\ result.ret # None
           /\ result.ret[1] \in Range(Input)
           /\ PositivelyPriced(result.ret[1])
           /\ \A o \in Range(Input) :
                 PositivelyPriced(o) => ~BetterValue(o, result.ret[1])

C4_Witness ==
    /\ call.op = "best_value"
    /\ result.ret # None
    /\ PositivelyPriced(result.ret[1])
    /\ \E o \in Range(Input) : ~Priced(o) /\ o.rating > result.ret[1].rating
    /\ \E o \in Range(Input) : o.price = Some(0) /\ o.rating > result.ret[1].rating

(***************************************************************************)
(* C5: the list for_service returns is ordered by rating descending, then  *)
(* review_count descending, then price ascending with no price last; two   *)
(* options equal on all three keep the order of the constructor's input.   *)
(***************************************************************************)
C5_ForServiceIsRankedAndStable ==
    call.op = "for_service"
        => \A i \in 1..Len(Returned) : \A j \in (i + 1)..Len(Returned) :
              /\ ~RanksBefore(Returned[j], Returned[i])
              /\ SameRank(Returned[i], Returned[j])
                    => Returned[i].provider < Returned[j].provider

C5_Witness ==
    /\ call.op = "for_service"
    /\ Len(Returned) = 3
    /\ Returned[1].provider = 3
    /\ SameRank(Returned[2], Returned[3])
    /\ ~Priced(Returned[2])
    /\ Priced(Returned[1])
    /\ Returned[1].rating = Returned[2].rating
    /\ Returned[1].review_count = Returned[2].review_count

(***************************************************************************)
(* C6: for_service(name) returns exactly the options of the constructor's  *)
(* input whose trimmed, lower-cased service equals the trimmed,            *)
(* lower-cased name, each once; names that normalize equal get the same    *)
(* list, and a name that matches nothing gets an empty list.               *)
(***************************************************************************)
C6_ForServiceIsTheBucket ==
    call.op = "for_service"
        => /\ IsPermutation(Returned, BucketOf(call.arg))
           /\ Len(Returned) = Len(BucketOf(call.arg))
           /\ \A n \in QueryNames \cup RawServices :
                 SameService(n, call.arg) => for_service(heap, repo[1], n) = Returned

C6_Witness ==
    /\ call.op = "for_service"
    /\ call.arg = <<97, 32>>
    /\ Len(Returned) = 2
    /\ Returned[1].service # Returned[2].service
    /\ Returned[1].provider > Returned[2].provider
    /\ \E o \in Range(Input) : o.provider = 0 /\ SameService(o.service, call.arg)

(***************************************************************************)
(* C7: services() returns the distinct raw service strings of the          *)
(* repository's options in strictly ascending order (so without            *)
(* duplicates), none for an empty repository; raw strings that differ in   *)
(* case or surrounding whitespace only are each reported.                  *)
(***************************************************************************)
C7_ServicesSortedDistinctRaw ==
    call.op = "services"
        => /\ \A i \in 1..Len(Returned) : \A j \in (i + 1)..Len(Returned) :
                 StrLess(Returned[i], Returned[j])
           /\ Range(Returned) = {o.service : o \in Range(fresh.input)}

C7_Witness ==
    /\ call.op = "services"
    /\ Len(Returned) = 2
    /\ SameService(Returned[1], Returned[2])
    /\ fresh.input[1].service = Returned[2]

(***************************************************************************)
(* C8: the repository is a snapshot.  Whatever the caller does to the list *)
(* it passed or to a list it was returned, services() and for_service()    *)
(* answer as right after construction, and no operation of the repository  *)
(* or selection function changes the caller's list.                        *)
(***************************************************************************)
C8_RepositoryIsASnapshot ==
    /\ Input = expected
    /\ repo # <<>>
          => /\ services(heap, repo[1]) = fresh.services
             /\ \A n \in QueryNames :
                   for_service(heap, repo[1], n) = fresh.for_service[n]
             /\ call.op = "services" => Returned = fresh.services
             /\ call.op \in {"for_service", "summary"}
                   => Returned = fresh.for_service[call.arg]

C8_Witness ==
    /\ repo # <<>>
    /\ call.op = "for_service"
    /\ Returned # <<>>
    /\ edits > 0
    /\ Input # fresh.input
    /\ \E o \in Range(Input) : o.provider = 0 /\ SameService(o.service, call.arg)

(***************************************************************************)
(* C9: a selection function given a generator that was not yet consumed    *)
(* returns what it returns for a list of the same options.                 *)
(***************************************************************************)
C9_GeneratorAsList ==
    (call.op \in {"best_rated", "cheapest", "best_value"} /\ call.arg = 0)
        => result.ret =
              CASE call.op = "best_rated" -> best_rated(ListOf(Input)).ret
                [] call.op = "cheapest"   -> cheapest(ListOf(Input)).ret
                [] call.op = "best_value" -> best_value(ListOf(Input)).ret

(***************************************************************************)
(* C10: the first option of a non-empty for_service(name) is the option    *)
(* best_rated picks from that list, and the option best_rated picks from   *)
(* the bucket's options in the constructor's input order.                  *)
(***************************************************************************)
C10_RankingAgreesWithBestRated ==
    call.op = "summary"
        => /\ result.best.ret = Some(Returned[1])
           /\ best_rated(ListOf(BucketOf(call.arg))).ret = Some(Returned[1])

C10_Witness ==
    /\ call.op = "summary"
    /\ Len(Returned) = 3
    /\ Returned[1].provider = 2
    /\ SameRank(Returned[1], Returned[2])
    /\ Returned[2].provider = 3
    /\ ~Priced(fresh.input[1])

=============================================================================
